---- MODULE Spec2Model ----
(***************************************************************************)
(* Model of the outreach-message pipeline of src/app.py: the summarizer,   *)
(* the name extractor, the message composer with its textual repair steps, *)
(* and the two-node LangGraph workflow that sequences them.                *)
(*                                                                         *)
(* Text is modelled character by character: a Python str is a sequence of  *)
(* one-character strings, so that strip, lower, startswith, split, count   *)
(* and replace are computed as Python computes them.  The one non-ASCII    *)
(* character of the source, the right single quotation mark of line 122,   *)
(* is the single element "U+2019".                                         *)
(***************************************************************************)
EXTENDS Integers, Sequences, FiniteSets, TLC

VARIABLES
    request,    \* the record the caller handed to graph1.invoke (never changed)
    state,      \* the ProspectMessageState threaded through the nodes
    pc,         \* the node to run next, "END", or "raised"
    client,     \* what the completion service does on its 1st, 2nd, 3rd call
    llm_calls,  \* the calls made to groq_llm so far, in order
    summaries,  \* the calls made to summarizer so far, in order
    locals      \* generate_message: response and the successive values of message

vars == <<request, state, pc, client, llm_calls, summaries, locals>>

----------------------------------------------------------------------------
(* Bounds *)

\* A completion of the composer is a concatenation of at most MaxChunks fragments.
MaxChunks == 4

----------------------------------------------------------------------------
(* Python values and str operations *)

Str(s) == [t |-> "str", v |-> s]
None == [t |-> "none", v |-> <<>>]
IntVal(digits) == [t |-> "int", v |-> digits]

\* bool(x)
Truthy(x) ==
    \/ x.t = "str" /\ x.v # <<>>
    \/ x.t = "int" /\ x.v # <<"0">>

\* isinstance(x, str)
IsStr(x) == x.t = "str"

\* format(x) inside an f-string
Format(x) == IF x.t = "none" THEN <<"N","o","n","e">> ELSE x.v

UpperLetters ==
    <<"A","B","C","D","E","F","G","H","I","J","K","L","M",
      "N","O","P","Q","R","S","T","U","V","W","X","Y","Z">>

LowerLetters ==
    <<"a","b","c","d","e","f","g","h","i","j","k","l","m",
      "n","o","p","q","r","s","t","u","v","w","x","y","z">>

UpperSet == {UpperLetters[i] : i \in 1..Len(UpperLetters)}
LowerSet == {LowerLetters[i] : i \in 1..Len(LowerLetters)}
Digits == {"0","1","2","3","4","5","6","7","8","9"}
Whitespace == {" ", "\n", "\t", "\r"}

LowerMap ==
    [c \in UpperSet |->
        LowerLetters[CHOOSE i \in 1..Len(UpperLetters) : UpperLetters[i] = c]]

SetMin(S) == CHOOSE x \in S : \A y \in S : x <= y
SetMax(S) == CHOOSE x \in S : \A y \in S : x >= y

\* s.lower()
Lower(s) ==
    [i \in 1..Len(s) |-> IF s[i] \in UpperSet THEN LowerMap[s[i]] ELSE s[i]]

\* s.strip()
Strip(s) ==
    LET keep == {i \in 1..Len(s) : s[i] \notin Whitespace}
    IN  IF keep = {} THEN <<>> ELSE SubSeq(s, SetMin(keep), SetMax(keep))

\* s.startswith(p)
StartsWith(s, p) == Len(p) <= Len(s) /\ SubSeq(s, 1, Len(p)) = p

\* s.find(sub) + 1: the first position of sub in s, 0 when there is none
Find(s, sub) ==
    IF sub = <<>> THEN 1
    ELSE LET hits == {i \in 1..(Len(s) - Len(sub) + 1) :
                         /\ s[i] = sub[1]
                         /\ SubSeq(s, i, i + Len(sub) - 1) = sub}
         IN  IF hits = {} THEN 0 ELSE SetMin(hits)

\* sub in s
Contains(s, sub) == Find(s, sub) # 0

\* s.count(sub), sub non-empty: occurrences from the left, not overlapping
RECURSIVE Count(_, _)
Count(s, sub) ==
    LET i == Find(s, sub)
    IN  IF i = 0 THEN 0
        ELSE 1 + Count(SubSeq(s, i + Len(sub), Len(s)), sub)

\* s.split(sep), sep non-empty
RECURSIVE Split(_, _)
Split(s, sep) ==
    LET i == Find(s, sep)
    IN  IF i = 0 THEN <<s>>
        ELSE <<SubSeq(s, 1, i - 1)>> \o Split(SubSeq(s, i + Len(sep), Len(s)), sep)

\* s.split(sep, 1)
SplitOnce(s, sep) ==
    LET i == Find(s, sep)
    IN  IF i = 0 THEN <<s>>
        ELSE <<SubSeq(s, 1, i - 1), SubSeq(s, i + Len(sep), Len(s))>>

\* s.replace(old, new, 1), old non-empty
ReplaceFirst(s, old, new) ==
    LET i == Find(s, old)
    IN  IF i = 0 THEN s
        ELSE SubSeq(s, 1, i - 1) \o new \o SubSeq(s, i + Len(old), Len(s))

----------------------------------------------------------------------------
(* String literals of the source *)

\* 'No content to summarize.'
NoContent ==
    <<"N","o"," ","c","o","n","t","e","n","t"," ","t","o"," ","s","u","m","m",
      "a","r","i","z","e",".">>

\* 'Background summary unavailable'
SummaryUnavailable ==
    <<"B","a","c","k","g","r","o","u","n","d"," ","s","u","m","m","a","r","y",
      " ","u","n","a","v","a","i","l","a","b","l","e">>

\* 'there'
There ==
    <<"t","h","e","r","e">>

\* 'Sumana'
my_name ==
    <<"S","u","m","a","n","a">>

\* 'Here is a LinkedIn connection message'
UnwantedStart1 ==
    <<"H","e","r","e"," ","i","s"," ","a"," ","L","i","n","k","e","d","I","n",
      " ","c","o","n","n","e","c","t","i","o","n"," ","m","e","s","s","a","g",
      "e">>

\* 'Here<U+2019>s a LinkedIn message'
UnwantedStart2 ==
    <<"H","e","r","e","U+2019","s"," ","a"," ","L","i","n","k","e","d","I",
      "n"," ","m","e","s","s","a","g","e">>

\* 'LinkedIn connection message:'
UnwantedStart3 ==
    <<"L","i","n","k","e","d","I","n"," ","c","o","n","n","e","c","t","i","o",
      "n"," ","m","e","s","s","a","g","e",":">>

\* 'Message:'
UnwantedStart4 ==
    <<"M","e","s","s","a","g","e",":">>

\* 'Output:'
UnwantedStart5 ==
    <<"O","u","t","p","u","t",":">>

\* 'look forward'
ConnectionPhrase1 ==
    <<"l","o","o","k"," ","f","o","r","w","a","r","d">>

\* 'would be great'
ConnectionPhrase2 ==
    <<"w","o","u","l","d"," ","b","e"," ","g","r","e","a","t">>

\* 'hope to connect'
ConnectionPhrase3 ==
    <<"h","o","p","e"," ","t","o"," ","c","o","n","n","e","c","t">>

\* 'love to connect'
ConnectionPhrase4 ==
    <<"l","o","v","e"," ","t","o"," ","c","o","n","n","e","c","t">>

\* 'looking forward'
ConnectionPhrase5 ==
    <<"l","o","o","k","i","n","g"," ","f","o","r","w","a","r","d">>

\* "\nI'll be there too & looking forward to catching up with you at the event."
ConnectionNote ==
    <<"\n","I","'","l","l"," ","b","e"," ","t","h","e","r","e"," ","t","o",
      "o"," ","&"," ","l","o","o","k","i","n","g"," ","f","o","r","w","a","r",
      "d"," ","t","o"," ","c","a","t","c","h","i","n","g"," ","u","p"," ","w",
      "i","t","h"," ","y","o","u"," ","a","t"," ","t","h","e"," ","e","v","e",
      "n","t",".">>

\* 'Failed to generate message'
FailedMessage ==
    <<"F","a","i","l","e","d"," ","t","o"," ","g","e","n","e","r","a","t","e",
      " ","m","e","s","s","a","g","e">>

\* 'Hi '
HiPrefix ==
    <<"H","i"," ">>

\* '\nI see that you will be attending  '
EventLine ==
    <<"\n","I"," ","s","e","e"," ","t","h","a","t"," ","y","o","u"," ","w",
      "i","l","l"," ","b","e"," ","a","t","t","e","n","d","i","n","g"," "," ">>

\* 'Best, '
BestPrefix ==
    <<"B","e","s","t",","," ">>

\* '\n'
Newline ==
    <<"\n">>

\* '\n\n'
BlankLine ==
    <<"\n","\n">>

unwanted_starts ==
    <<UnwantedStart1, UnwantedStart2, UnwantedStart3, UnwantedStart4,
      UnwantedStart5>>

connection_phrases ==
    <<ConnectionPhrase1, ConnectionPhrase2, ConnectionPhrase3,
      ConnectionPhrase4, ConnectionPhrase5>>

\* f"Best, {my_name}"
SignOff == BestPrefix \o my_name

\* text[:4000]
MaxSummaryInput == 4000

----------------------------------------------------------------------------
(* The completion client *)

\* What the completion service does on one call: it fails, or it answers with
\* a message content.
Raise == [raises |-> TRUE, content |-> <<>>]
Return(text) == [raises |-> FALSE, content |-> text]

\* groq_llm, when the service answers: the content, stripped
groq_llm(outcome) == Strip(outcome.content)

\* One entry of llm_calls: who called, the text interpolated into the prompt
\* (truncated_text, or the composer's Key Highlight), the name the composer
\* greets, and whether the call failed.
Call(caller, text, name, outcome) ==
    [caller |-> caller, text |-> text, name |-> name, raised |-> outcome.raises]

----------------------------------------------------------------------------
(* summarizer *)

Truncate(s) ==
    SubSeq(s, 1, IF Len(s) < MaxSummaryInput THEN Len(s) ELSE MaxSummaryInput)

\* summarizer with the emptiness test of line 34 left out
summarizer_NoEmptyCheck(text, outcome) ==
    IF ~IsStr(text)
    THEN [result |-> NoContent, calls |-> <<>>]
    ELSE [result |-> IF outcome.raises
                     THEN SummaryUnavailable
                     ELSE Strip(groq_llm(outcome)),
          calls |-> <<Call("summarizer", Truncate(text.v), <<>>, outcome)>>]

\* summarizer(text), given what the service does if it is called: the result
\* and the calls made.
summarizer(text, outcome) ==
    IF ~Truthy(text) \/ ~IsStr(text)
    THEN [result |-> NoContent, calls |-> <<>>]
    ELSE LET truncated_text == Truncate(text.v)
         IN  [result |-> IF outcome.raises
                         THEN SummaryUnavailable
                         ELSE Strip(groq_llm(outcome)),
              calls |-> <<Call("summarizer", truncated_text, <<>>, outcome)>>]

\* the node's result with prospect_background left as the caller sent it
MergeSummaries_KeepsProspect(st, prospect, mine) ==
    [k \in DOMAIN st \cup {"my_background"} |->
        IF k = "my_background" THEN Str(mine) ELSE st[k]]

\* {**state, "prospect_background": ..., "my_background": ...}
MergeSummaries(st, prospect, mine) ==
    [k \in DOMAIN st \cup {"prospect_background", "my_background"} |->
        IF k = "prospect_background" THEN Str(prospect)
        ELSE IF k = "my_background" THEN Str(mine)
        ELSE st[k]]

----------------------------------------------------------------------------
(* extract_name_from_background *)

\* \w
IsWordChar(c) == c \in UpperSet \cup LowerSet \cup Digits \cup {"_"}

\* the length of the run of [a-z] that starts at position k
RECURSIVE LowerRun(_, _)
LowerRun(s, k) ==
    IF k <= Len(s) /\ s[k] \in LowerSet THEN 1 + LowerRun(s, k + 1) ELSE 0

\* The last position of the match of \b[A-Z][a-z]+(?:\s[A-Z][a-z]+)? that
\* starts at position i, 0 when none starts there.
NameMatchEnd(s, i) ==
    IF ~(/\ s[i] \in UpperSet
         /\ (i = 1 \/ ~IsWordChar(s[i - 1]))
         /\ LowerRun(s, i + 1) > 0)
    THEN 0
    ELSE LET e == i + LowerRun(s, i + 1)
         IN  IF /\ e + 2 <= Len(s)
                /\ s[e + 1] \in Whitespace
                /\ s[e + 2] \in UpperSet
                /\ LowerRun(s, e + 3) > 0
             THEN e + 2 + LowerRun(s, e + 3)
             ELSE e

extract_name_from_background(background) ==
    LET starts == {i \in 1..Len(background) : NameMatchEnd(background, i) # 0}
    IN  IF background = <<>> \/ starts = {}
        THEN There
        ELSE SubSeq(background, SetMin(starts),
                    NameMatchEnd(background, SetMin(starts)))

----------------------------------------------------------------------------
(* generate_message: the repair steps *)

\* for phrase in unwanted_starts: ... (lines 127-129), from phrase number k on
RECURSIVE UnwantedFrom(_, _)
UnwantedFrom(message, k) ==
    IF k > Len(unwanted_starts) THEN message
    ELSE IF StartsWith(Lower(message), Lower(unwanted_starts[k]))
         THEN LET parts == SplitOnce(message, Newline)
              IN  UnwantedFrom(Strip(parts[Len(parts)]), k + 1)
         ELSE UnwantedFrom(message, k + 1)

\* the loop with parts[0] kept in place of parts[-1]
RemoveUnwantedStarts_KeepsFirstLine(message) ==
    IF \E k \in 1..Len(unwanted_starts) :
           StartsWith(Lower(message), Lower(unwanted_starts[k]))
    THEN Strip(SplitOnce(message, Newline)[1])
    ELSE message

RemoveUnwantedStarts(message) == UnwantedFrom(message, 1)

\* any(phrase in message.lower() for phrase in connection_phrases)
HasConnectionPhrase(message) ==
    \E k \in 1..Len(connection_phrases) :
        Contains(Lower(message), connection_phrases[k])

\* the note appended whether or not a phrase is present
EnsureConnectionNote_Always(message) == message \o ConnectionNote

\* lines 133-135
EnsureConnectionNote(message) ==
    IF ~HasConnectionPhrase(message) THEN message \o ConnectionNote ELSE message

\* f"Hi {prospect_first_name},"
Greeting(name) == HiPrefix \o name \o <<",">>

\* lines 137-143, company a str; event is state.get('event_name', '') formatted
AddCompanyMention(message, company, name, event) ==
    IF ~Contains(Lower(message), Lower(company))
    THEN ReplaceFirst(message, Greeting(name),
                      Greeting(name) \o EventLine \o event \o <<".">>)
    ELSE message

\* the sign-off step with > 2 in place of > 1
DedupeSignOff_MoreThanTwo(message) ==
    IF Count(message, SignOff) > 2
    THEN Strip(Split(message, SignOff)[1]) \o BlankLine \o SignOff
    ELSE message

\* lines 146-148
DedupeSignOff(message) ==
    IF Count(message, SignOff) > 1
    THEN Strip(Split(message, SignOff)[1]) \o BlankLine \o SignOff
    ELSE message

\* state.get('event_name', '') as the f-strings print it
EventText(st) ==
    IF "event_name" \in DOMAIN st THEN Format(st["event_name"]) ELSE <<>>

\* Lines 119-148: the successive values of the local variable message.  With a
\* company that is no str, line 137 raises after the third value.
PostProcess(response, st, name) ==
    LET m1 == Strip(response)
        m2 == RemoveUnwantedStarts(m1)
        m3 == EnsureConnectionNote(m2)
        m4 == AddCompanyMention(m3, st["company"].v, name, EventText(st))
        m5 == DedupeSignOff(m4)
    IN  IF IsStr(st["company"]) THEN <<m1, m2, m3, m4, m5>> ELSE <<m1, m2, m3>>

\* the keys the prompt reads with state[...] (lines 109-110)
PromptKeys == {"prospect_name", "designation", "company", "prospect_background"}

\* {**state, "final_message": message}
WithFinalMessage(st, message) ==
    [k \in DOMAIN st \cup {"final_message"} |->
        IF k = "final_message" THEN Str(message) ELSE st[k]]

----------------------------------------------------------------------------
(* Inputs: the caller's records and the completion service's answers *)

\* 'Prospect bio: Jane Doe led platform work at Acme Corp since 2019'
RawProspect ==
    <<"P","r","o","s","p","e","c","t"," ","b","i","o",":"," ","J","a","n","e",
      " ","D","o","e"," ","l","e","d"," ","p","l","a","t","f","o","r","m"," ",
      "w","o","r","k"," ","a","t"," ","A","c","m","e"," ","C","o","r","p"," ",
      "s","i","n","c","e"," ","2","0","1","9">>

\* 'I run partnerships'
RawMine ==
    <<"I"," ","r","u","n"," ","p","a","r","t","n","e","r","s","h","i","p","s">>

\* ' Jane Doe led platform work at Acme Corp \n'
SummaryJane ==
    <<" ","J","a","n","e"," ","D","o","e"," ","l","e","d"," ","p","l","a","t",
      "f","o","r","m"," ","w","o","r","k"," ","a","t"," ","A","c","m","e"," ",
      "C","o","r","p"," ","\n">>

\* 'Runs partnerships'
SummaryMine ==
    <<"R","u","n","s"," ","p","a","r","t","n","e","r","s","h","i","p","s">>

\* '  \n'
Blank ==
    <<" "," ","\n">>

\* 'Acme Corp'
AcmeCorp ==
    <<"A","c","m","e"," ","C","o","r","p">>

\* 'Ai4 Vegas 2025'
EventAi4 ==
    <<"A","i","4"," ","V","e","g","a","s"," ","2","0","2","5">>

\* 'Jane Doe'
JaneDoe ==
    <<"J","a","n","e"," ","D","o","e">>

\* 'VP Engineering'
VPEng ==
    <<"V","P"," ","E","n","g","i","n","e","e","r","i","n","g">>

\* 'Here is a LinkedIn connection message for Jane:\nMessage:\nHi Jane Doe,\nBest, Sumana\nBest, Sumana'
DraftChain ==
    <<"H","e","r","e"," ","i","s"," ","a"," ","L","i","n","k","e","d","I","n",
      " ","c","o","n","n","e","c","t","i","o","n"," ","m","e","s","s","a","g",
      "e"," ","f","o","r"," ","J","a","n","e",":","\n","M","e","s","s","a",
      "g","e",":","\n","H","i"," ","J","a","n","e"," ","D","o","e",",","\n",
      "B","e","s","t",","," ","S","u","m","a","n","a","\n","B","e","s","t",
      ","," ","S","u","m","a","n","a">>

\* 'MESSAGE:'
FragPreamble ==
    <<"M","E","S","S","A","G","E",":">>

\* 'Hi Jane Doe,'
FragGreeting ==
    <<"H","i"," ","J","a","n","e"," ","D","o","e",",">>

\* 'Best, Sumana'
FragSignOff ==
    <<"B","e","s","t",","," ","S","u","m","a","n","a">>

\* ' Would love to connect! '
FragIntent ==
    <<" ","W","o","u","l","d"," ","l","o","v","e"," ","t","o"," ","c","o","n",
      "n","e","c","t","!"," ">>

\* 'your work at ACME corp'
FragCompany ==
    <<"y","o","u","r"," ","w","o","r","k"," ","a","t"," ","A","C","M","E"," ",
      "c","o","r","p">>

Fragments ==
    {FragPreamble, Newline, FragGreeting, FragSignOff, FragIntent, FragCompany}

\* the concatenations of exactly n fragments
RECURSIVE Chunks(_)
Chunks(n) ==
    IF n = 0 THEN {<<>>}
    ELSE {f \o c : f \in Fragments, c \in Chunks(n - 1)}

Completions == UNION {Chunks(n) : n \in 0..MaxChunks}

\* The optional fields a caller may send: present, null, or left out.
FullFields ==
    [prospect_name |-> Str(JaneDoe), designation |-> Str(VPEng),
     company |-> Str(AcmeCorp), event_name |-> Str(EventAi4)]

OptionalFields ==
    {FullFields,
     [FullFields EXCEPT !.company = None],
     [FullFields EXCEPT !.prospect_name = None, !.designation = None,
                        !.event_name = None],
     [k \in {"prospect_name", "designation", "company"} |-> FullFields[k]],
     [k \in {"designation", "company", "event_name"} |-> FullFields[k]],
     [k \in {"prospect_name", "company", "event_name"} |-> FullFields[k]],
     [k \in {"prospect_name", "designation", "event_name"} |-> FullFields[k]]}

Backgrounds(prospect, mine) ==
    [prospect_background |-> prospect, my_background |-> mine]

\* Any caller's record against a service that fails or gives one of a few
\* answers on each call.
PipelineScenarios ==
    {[request |-> f @@ Backgrounds(p, m), script |-> s] :
        f \in OptionalFields,
        p \in {Str(RawProspect), Str(<<>>), None, IntVal(<<"7">>)},
        m \in {Str(RawMine), Str(<<>>)},
        s \in [1..3 -> {Raise, Return(SummaryJane), Return(Blank),
                        Return(DraftChain)}]}

\* The complete record against a service that summarizes and then returns
\* any completion.
ComposeScenarios ==
    {[request |-> FullFields @@ Backgrounds(Str(RawProspect), Str(RawMine)),
      script |-> <<Return(SummaryJane), Return(SummaryMine), Return(c)>>] :
        c \in Completions}

Scenarios == PipelineScenarios \cup ComposeScenarios

----------------------------------------------------------------------------
(* The workflow *)

Init ==
    \E sc \in Scenarios :
        /\ request = sc.request
        /\ state = sc.request
        /\ client = sc.script
        /\ pc = "summarize_backgrounds"
        /\ llm_calls = <<>>
        /\ summaries = <<>>
        /\ locals = [response |-> <<>>, message |-> <<>>]

\* what the service does on its k-th call
Outcome(k) == client[k]

\* One entry of summaries.
Summary(field, input, r) ==
    [field |-> field, input |-> input, result |-> r.result,
     ncalls |-> Len(r.calls)]

\* The node summarize_backgrounds: prospect_background is summarized first.
summarize_backgrounds ==
    /\ pc = "summarize_backgrounds"
    /\ LET r1 == summarizer(state["prospect_background"],
                            Outcome(Len(llm_calls) + 1))
           r2 == summarizer(state["my_background"],
                            Outcome(Len(llm_calls) + Len(r1.calls) + 1))
       IN  /\ state' = MergeSummaries(state, r1.result, r2.result)
           /\ llm_calls' = llm_calls \o r1.calls \o r2.calls
           /\ summaries' = summaries
                  \o <<Summary("prospect_background",
                               state["prospect_background"], r1),
                       Summary("my_background", state["my_background"], r2)>>
    /\ pc' = "generate_message"
    /\ UNCHANGED <<request, client, locals>>

\* The node generate_message.  Building the prompt (lines 76-114) is outside
\* the try: a key the prompt reads with state[...] and the record lacks raises
\* KeyError out of the node, and graph1.invoke raises it to the caller.
generate_message ==
    /\ pc = "generate_message"
    /\ IF ~(PromptKeys \subseteq DOMAIN state)
       THEN /\ pc' = "raised"
            /\ UNCHANGED <<state, llm_calls, locals>>
       ELSE LET prospect_first_name ==
                    extract_name_from_background(state["prospect_background"].v)
                outcome == Outcome(Len(llm_calls) + 1)
                call == Call("generate_message", state["prospect_background"].v,
                             prospect_first_name, outcome)
                response == groq_llm(outcome)
                steps == IF outcome.raises THEN <<>>
                         ELSE PostProcess(response, state, prospect_first_name)
            IN  /\ llm_calls' = Append(llm_calls, call)
                /\ locals' = IF outcome.raises THEN locals
                             ELSE [response |-> response, message |-> steps]
                /\ state' = WithFinalMessage(state,
                                IF Len(steps) = 5 THEN steps[5]
                                ELSE FailedMessage)
                /\ pc' = "END"
    /\ UNCHANGED <<request, client, summaries>>

Next == summarize_backgrounds \/ generate_message

Spec == Init /\ [][Next]_vars

----------------------------------------------------------------------------
(* Vocabulary of the properties *)

Finished == pc = "END"

\* final_message of the record, once the composer has set it
FinalMessage == state["final_message"].v

\* The service answered the composer's call, so lines 119-148 ran.
Answered == Finished /\ locals.message # <<>>

\* Lines 119-148 ran to the end: the composer returned a processed message.
Processed == Finished /\ Len(locals.message) = 5

NonEmptyStr(x) == IsStr(x) /\ x.v # <<>>

EndsWith(s, p) ==
    Len(p) <= Len(s) /\ SubSeq(s, Len(s) - Len(p) + 1, Len(s)) = p

BeginsWithPreamble(m) ==
    \E k \in 1..Len(unwanted_starts) :
        StartsWith(Lower(m), Lower(unwanted_starts[k]))

HasNewline(m) == \E i \in 1..Len(m) : m[i] = "\n"

\* the text after the first line of m, empty when m is a single line
AfterFirstLine(m) ==
    LET nl == {i \in 1..Len(m) : m[i] = "\n"}
    IN  IF nl = {} THEN <<>> ELSE SubSeq(m, SetMin(nl) + 1, Len(m))

\* the calls of llm_calls made by caller
CallsBy(caller) == SelectSeq(llm_calls, LAMBDA c : c.caller = caller)

----------------------------------------------------------------------------
(* C1 *)

\* C1: if the completion client raises on every call, then for every request
\* with non-empty string backgrounds both backgrounds become "Background
\* summary unavailable", final_message becomes "Failed to generate message",
\* and the run completes with no exception escaping either stage.
C1_AllCallsFailDegrades ==
    (/\ \A k \in 1..Len(client) : client[k].raises
     /\ NonEmptyStr(request["prospect_background"])
     /\ NonEmptyStr(request["my_background"])
     /\ pc # "summarize_backgrounds")
    => /\ state["prospect_background"] = Str(SummaryUnavailable)
       /\ state["my_background"] = Str(SummaryUnavailable)
       /\ pc # "raised"
       /\ (Finished => state["final_message"] = Str(FailedMessage))

----------------------------------------------------------------------------
(* C2 *)

\* C2: for every request reaching compose, optional fields null or absent
\* included, and every client outcome, a failure during compose sets
\* final_message to "Failed to generate message"; compose never raises to
\* the orchestrator.
C2_ComposeNeverRaises ==
    /\ pc # "raised"
    /\ (Finished /\ ~Processed => state["final_message"] = Str(FailedMessage))

----------------------------------------------------------------------------
(* C3 *)

\* C3: for every completion that does not contain the request's company name
\* (case-insensitive), the post-processed final_message contains the company
\* name (case-insensitive).
C3_CompanyPresentAfterRepair ==
    (/\ Processed
     /\ ~Contains(Lower(locals.response), Lower(request["company"].v)))
    => Contains(Lower(FinalMessage), Lower(request["company"].v))

----------------------------------------------------------------------------
(* C4 *)

\* C4: for every completion that contains none of the connection-intent
\* phrases, the final_message, after all post-processing steps, contains at
\* least one of them (case-insensitive).
C4_ConnectionPhraseAfterRepair ==
    (Processed /\ ~HasConnectionPhrase(locals.response))
    => HasConnectionPhrase(FinalMessage)

----------------------------------------------------------------------------
(* C5 *)

\* C5 as stated: for every completion in which "Best, Sumana" occurs two or
\* more times, final_message contains it exactly once, at its end.
C5_OneSignOffPerCompletion ==
    (Answered /\ Count(locals.response, SignOff) >= 2)
    => Count(FinalMessage, SignOff) = 1 /\ EndsWith(FinalMessage, SignOff)

\* C5, amended: when the company is a string and the message that reaches the
\* sign-off step (the completion after preamble removal, connection note and
\* event line) contains "Best, Sumana" two or more times, final_message
\* contains it exactly once, at its end.
C5_OneSignOffAfterDedupe ==
    (Processed /\ Count(locals.message[4], SignOff) >= 2)
    => Count(FinalMessage, SignOff) = 1 /\ EndsWith(FinalMessage, SignOff)

C5_Witness ==
    /\ Processed
    /\ Count(locals.message[4], SignOff) >= 2
    /\ FinalMessage # locals.message[4]

----------------------------------------------------------------------------
(* C6 *)

\* no preamble at the start, a connection phrase, the company, one sign-off
Compliant(m) ==
    /\ ~BeginsWithPreamble(m)
    /\ HasConnectionPhrase(m)
    /\ Contains(Lower(m), Lower(request["company"].v))
    /\ Count(m, SignOff) = 1

\* C6: post-processing is idempotent on compliant messages: a completion with
\* no preamble at its start, a connection phrase, the company name and the
\* sign-off exactly once comes out of the repair steps unchanged, and so does
\* a compliant final_message put through them again.
C6_CompliantUnchanged ==
    Processed =>
        /\ Compliant(locals.response) => FinalMessage = locals.response
        /\ Compliant(FinalMessage) =>
               PostProcess(FinalMessage, state, CallsBy("generate_message")[1].name)[5]
                   = FinalMessage

C6_Witness ==
    /\ Processed
    /\ Compliant(locals.response)
    /\ Len(locals.response) > 0

----------------------------------------------------------------------------
(* C7 *)

\* C7: every pipeline run ends with final_message populated, never null: a
\* non-empty string or the sentinel.
C7_RunEndsWithFinalMessage ==
    pc \in {"END", "raised"} =>
        /\ "final_message" \in DOMAIN state
        /\ NonEmptyStr(state["final_message"])

----------------------------------------------------------------------------
(* C8 *)

\* C8: each background is passed through summarize exactly once, before
\* compose starts; the background compose reads, for the name and for the
\* prompt, is the summarizer's result for prospect_background; final_message
\* is absent until compose has run.
C8_SummarizedOnceBeforeCompose ==
    /\ pc = "summarize_backgrounds" => summaries = <<>> /\ llm_calls = <<>>
    /\ pc # "summarize_backgrounds" =>
        /\ Len(summaries) = 2
        /\ summaries[1].field = "prospect_background"
        /\ summaries[1].input = request["prospect_background"]
        /\ summaries[2].field = "my_background"
        /\ summaries[2].input = request["my_background"]
        /\ state["prospect_background"] = Str(summaries[1].result)
        /\ state["my_background"] = Str(summaries[2].result)
        /\ \A i \in 1..Len(llm_calls) :
              llm_calls[i].caller = "generate_message" =>
                  /\ i > summaries[1].ncalls + summaries[2].ncalls
                  /\ llm_calls[i].text = summaries[1].result
                  /\ llm_calls[i].name =
                         extract_name_from_background(summaries[1].result)
    /\ ~Finished => "final_message" \notin DOMAIN state

C8_Witness ==
    /\ Finished
    /\ CallsBy("generate_message") # <<>>
    /\ summaries[1].ncalls = 1
    /\ Str(summaries[1].result) # request["prospect_background"]
    /\ "final_message" \in DOMAIN state

----------------------------------------------------------------------------
(* C9 *)

\* C9: for an empty or non-string input summarize returns "No content to
\* summarize." and makes no completion call; for a non-empty string it makes
\* exactly one call, and returns the fallback when that call fails.
C9_SummarizerCalls ==
    /\ \A i \in 1..Len(summaries) :
          LET e == summaries[i]
          IN  /\ ~NonEmptyStr(e.input) => e.result = NoContent /\ e.ncalls = 0
              /\ NonEmptyStr(e.input) => e.ncalls = 1
    /\ pc # "summarize_backgrounds" =>
          LET made == CallsBy("summarizer")
          IN  /\ Len(made) = summaries[1].ncalls + summaries[2].ncalls
              /\ \A j \in 1..Len(made) : made[j] = llm_calls[j]
              /\ summaries[1].ncalls = 1 /\ llm_calls[1].raised
                     => summaries[1].result = SummaryUnavailable

C9_Witness ==
    /\ pc = "generate_message"
    /\ ~IsStr(summaries[1].input)
    /\ summaries[1].ncalls = 0
    /\ summaries[2].ncalls = 1
    /\ llm_calls[1].raised
    /\ summaries[2].result = SummaryUnavailable

----------------------------------------------------------------------------
(* C10 *)

\* C10 as stated: a completion that begins with a preamble phrase is carried
\* forward as exactly the text after its first line, a single-line completion
\* included; any other completion is carried forward unchanged.
C10_FirstLineDiscarded ==
    Answered =>
        LET m1 == locals.message[1]
            m2 == locals.message[2]
        IN  /\ BeginsWithPreamble(m1) => m2 = AfterFirstLine(m1)
            /\ ~BeginsWithPreamble(m1) => m2 = m1

\* C10, amended: a completion that begins with a preamble phrase and has more
\* than one line is carried forward as the text after its first line, stripped,
\* less any further leading lines removed in the same way when that text begins
\* with a preamble phrase itself; a single-line completion and a completion
\* that begins with no preamble phrase are carried forward unchanged.
C10_PreambleRemoval ==
    Answered =>
        LET m1 == locals.message[1]
            m2 == locals.message[2]
            r == Strip(AfterFirstLine(m1))
        IN  /\ ~BeginsWithPreamble(m1) => m2 = m1
            /\ BeginsWithPreamble(m1) /\ ~HasNewline(m1) => m2 = m1
            /\ BeginsWithPreamble(m1) /\ HasNewline(m1) =>
                  /\ EndsWith(r, m2)
                  /\ ~BeginsWithPreamble(r) => m2 = r

C10_Witness ==
    /\ Answered
    /\ BeginsWithPreamble(locals.message[1])
    /\ HasNewline(locals.message[1])
    /\ locals.message[2] = Strip(AfterFirstLine(locals.message[1]))
    /\ locals.message[2] # locals.message[1]

====
